---- MODULE Spec2Model ----
(***************************************************************************)
(* The agent loop (agent.ts: runAgent), the Context Manager (context.ts),  *)
(* the tool registry (tools/index.ts) and the handlers that call them      *)
(* (bot.ts, tools/scheduler_tools.ts, heartbeat.ts), as a state machine.   *)
(* The line numbers of agent.ts are those of src/unnamed/part_009, the     *)
(* ones of bot.ts those of src/unnamed/part_001, the ones of               *)
(* tools/index.ts those of src/src/tools/multimodal.ts and the ones of     *)
(* llm.ts those of src/src/scheduler.ts.                                   *)
(*                                                                         *)
(* Node runs every handler on one event loop: the code between two awaits  *)
(* that really suspend (a completion call, a tool execution, a store read  *)
(* or write) is one atomic action.  The bot's handlers run one at a time   *)
(* (grammy's long polling handles updates in sequence); a cron job runs    *)
(* whenever its timer fires, also while a bot handler is suspended.        *)
(*                                                                         *)
(* A text is a sequence of atoms; concatenation of strings is \o.          *)
(***************************************************************************)
EXTENDS Integers, Sequences, FiniteSets, TLC

\* ------------------------------------------------------------------ bounds
\* config.maxAgentIterations, a configured value (default 10)
MaxAgentIterations == 2
\* completion responses that carry tool-use blocks, per behaviour
MaxToolRounds == 2
\* failures of the environment (a completion call that throws, a store
\* request that answers with an error), per behaviour
MaxFaults == 1

\* ------------------------------------------------------- program constants
MAX_CONTEXT_TOKENS == 150000
\* PRUNE_THRESHOLD = 0.8, kept as tenths: x > M * 0.8  <=>  10 x > 8 M
PRUNE_THRESHOLD_TENTHS == 8
ROLE_OVERHEAD == 4
KEEP_COUNT == 4
LOAD_LIMIT == 50
MIN_MIDPOINT == 2
MIN_COMPACT == 4

\* ------------------------------------------------------------------- texts
SUMMARY_MARKER == "[Context Summary] "
FALLBACK == <<"I'm sorry, I got stuck in a loop. Please try rephrasing your question.">>
NO_RESPONSE == <<"(no response)">>
NOT_ENOUGH == <<"Not enough conversation history to compact.">>
UNKNOWN_TOOL == "Unknown tool: "
EXEC_FAILED == "Tool execution failed: "

\* tiktoken's count of one atom (the encoder is a library; the counts are
\* the sizes of the texts the model uses)
AtomTokens(a) ==
    CASE a = "" -> 0
      [] a = "hi" -> 3
      [] a = "4" -> 1
      [] a = "\n" -> 1
      [] a = "task" -> 2
      [] a = "brief" -> 2
      [] a = "big" -> 59993
      [] a = SUMMARY_MARKER -> 4
      [] a = "(no response)" -> 3
      [] OTHER -> 18

RECURSIVE countTokens(_)
countTokens(text) ==
    IF text = <<>> THEN 0
    ELSE AtomTokens(Head(text)) + countTokens(Tail(text))

\* ----------------------------------------------------------- tool registry
\* the names registered by the side-effect imports of index.ts that the
\* model's completion responses refer to
Registry == {"get_current_time", "list_memories"}

Absent == "undefined"

getTool_Any(name) == IF name \in Registry THEN name ELSE "get_current_time"

getTool(name) == IF name \in Registry THEN name ELSE Absent

getAllTools == Registry

\* a tool descriptor: its name and its implementation
Tool(name, execute) == [name |-> name, execute |-> execute]

\* registry.has(name), on the Map as the sequence of its values in
\* insertion order
registryHas(reg, name) == \E i \in 1..Len(reg) : reg[i].name = name

\* registerTool() lines 388-393: the Map after the call (it throws when the
\* name is taken)
registerTool_Overwrite(reg, tool) ==
    IF registryHas(reg, tool.name)
    THEN [i \in 1..Len(reg) |-> IF reg[i].name = tool.name THEN tool ELSE reg[i]]
    ELSE Append(reg, tool)

registerTool(reg, tool) ==
    IF registryHas(reg, tool.name) THEN reg ELSE Append(reg, tool)

AlreadyRegistered(name) == <<"Tool \"", name, "\" is already registered.">>

\* the descriptors that modules may register at import time
ToolNames == Registry \cup {"run_command"}
ToolDescriptors == {Tool(n, e) : n \in ToolNames, e \in {"first", "second"}}

\* the registry when the imports of index.ts are done
StartupRegistry ==
    <<Tool("get_current_time", "first"), Tool("list_memories", "first")>>

\* ------------------------------------------------------------ access control
\* config.allowedUserIds, and the ids updates come from (0: ctx.from is
\* undefined, or the id 0)
AllowedUserIds == {7}
Senders == {0, 7, 8}

\* bot.ts line 14
authorized_Anyone(userId) == userId # 0

authorized(userId) == userId # 0 /\ userId \in AllowedUserIds

\* --------------------------------------------------------- Context Manager
Entry(role, content) == [role |-> role, content |-> content]

addMessage_Twice(h, role, content) ==
    h \o <<Entry(role, content), Entry(role, content)>>

addMessage(h, role, content) == Append(h, Entry(role, content))

\* Message: content is a string (kind "text"), the response's content
\* blocks (kind "blocks") or tool-result blocks (kind "tool_results")
TextMessage(role, content) ==
    [role |-> role, kind |-> "text", content |-> content]

getMessages(h) == [i \in 1..Len(h) |-> TextMessage(h[i].role, h[i].content)]

RECURSIVE getTotalTokens_NoOverhead(_)
getTotalTokens_NoOverhead(h) ==
    IF h = <<>> THEN 0
    ELSE countTokens(Head(h).content) + getTotalTokens_NoOverhead(Tail(h))

RECURSIVE getTotalTokens(_)
getTotalTokens(h) ==
    IF h = <<>> THEN 0
    ELSE countTokens(Head(h).content) + ROLE_OVERHEAD + getTotalTokens(Tail(h))

needsPruning_AtThreshold(h) ==
    getTotalTokens(h) * 10 >= MAX_CONTEXT_TOKENS * PRUNE_THRESHOLD_TENTHS

needsPruning(h) ==
    getTotalTokens(h) * 10 > MAX_CONTEXT_TOKENS * PRUNE_THRESHOLD_TENTHS

midpoint_RoundedUp(h) == (Len(h) + 1) \div 2

midpoint(h) == Len(h) \div 2

\* prune() lines 93-96: the two early returns
pruneReturnsNull_NoLengthGuard(h) == ~needsPruning(h)

pruneReturnsNull(h) == ~needsPruning(h) \/ midpoint(h) < MIN_MIDPOINT

\* slice(0, n) and slice(n)
SliceTo(h, n) == SubSeq(h, 1, n)
SliceFrom(h, n) == SubSeq(h, n + 1, Len(h))

\* compact() lines 153-154: slice(0, -keepCount) and slice(-keepCount)
\* compact() line 148: too short a history to compact
compactTooShort_Three(h) == Len(h) < MIN_COMPACT - 1

compactTooShort(h) == Len(h) < MIN_COMPACT

CompactHead(h) == SliceTo(h, IF Len(h) > KEEP_COUNT THEN Len(h) - KEEP_COUNT ELSE 0)
CompactTail_Three(h) == SliceFrom(h, IF Len(h) > 3 THEN Len(h) - 3 ELSE 0)

CompactTail(h) == SliceFrom(h, IF Len(h) > KEEP_COUNT THEN Len(h) - KEEP_COUNT ELSE 0)

\* lines 118-125 and 174-181
SummaryEntry(summaryText) == Entry("assistant", <<SUMMARY_MARKER>> \o summaryText)

WithSummary(summaryText, toKeep) == <<SummaryEntry(summaryText)>> \o toKeep

\* the row of conversation_log
Row(role, content) == [role |-> role, content |-> content]

RECURSIVE Reverse(_)
Reverse(s) == IF s = <<>> THEN <<>> ELSE Append(Reverse(Tail(s)), Head(s))

\* loadHistory() lines 50-67: order by id descending, limit 50, reverse
NewestFirst_Unlimited(rows, limit) ==
    [i \in 1..Len(rows) |-> rows[Len(rows) + 1 - i]]

NewestFirst(rows, limit) ==
    LET n == IF Len(rows) < limit THEN Len(rows) ELSE limit
    IN  [i \in 1..n |-> rows[Len(rows) + 1 - i]]

loadedHistory(rows) ==
    LET data == Reverse(NewestFirst(rows, LOAD_LIMIT))
    IN  [i \in 1..Len(data) |-> Entry(data[i].role, data[i].content)]


\* ------------------------------------------------------ completion client
TextBlock(text) == [type |-> "text", text |-> text]
ToolUseBlock(id, name) == [type |-> "tool_use", id |-> id, name |-> name]

\* response.content of the completion calls of the loop
TextResponses ==
    { <<TextBlock("4")>>, <<>> }

ToolResponses ==
    { <<TextBlock("hi"), ToolUseBlock("id2", "no_such_tool"),
        ToolUseBlock("id1", "list_memories")>> }

\* the text of the summarization responses (no text block gives "")
SummaryTexts == { <<"brief">> }

\* what tool.execute does: resolve with a text (a short one, or a long
\* one: list_memories returns the memories it selects in full) or throw an
\* Error
ExecOutcomes ==
    { [ok |-> TRUE, text |-> <<"12:00">>], [ok |-> TRUE, text |-> <<"big">>],
      [ok |-> FALSE, text |-> <<"boom">>] }

UserTexts == {"hi"}
TaskPrompts == {"task"}

\* filter(block => block.type === "tool_use")
RECURSIVE toolUseBlocksOf(_)
toolUseBlocksOf(content) ==
    IF content = <<>> THEN <<>>
    ELSE IF Head(content).type = "tool_use"
         THEN <<Head(content)>> \o toolUseBlocksOf(Tail(content))
         ELSE toolUseBlocksOf(Tail(content))

\* textBlocks.map(b => b.text).join("\n")
RECURSIVE joinTexts(_)
joinTexts(content) ==
    IF content = <<>> THEN <<>>
    ELSE IF Head(content).type = "text"
         THEN LET rest == joinTexts(Tail(content))
              IN  IF rest = <<>> THEN <<Head(content).text>>
                  ELSE <<Head(content).text, "\n">> \o rest
         ELSE joinTexts(Tail(content))

\* agent.ts lines 39-40: the joined text, or "(no response)" when it is ""
finalTextOf(content) ==
    LET joined == joinTexts(content)
    IN  IF joined = <<>> \/ joined = <<"">> THEN NO_RESPONSE ELSE joined

\* JSON.stringify({ error: msg })
JsonError(msg) == <<"{\"error\":\"">> \o msg \o <<"\"}">>

\* agent.ts lines 74-78
ToolResult_FirstId(toolUse, result) ==
    [type |-> "tool_result", tool_use_id |-> "id1", content |-> result]

ToolResult(toolUse, result) ==
    [type |-> "tool_result", tool_use_id |-> toolUse.id, content |-> result]

\* agent.ts lines 56-72, given what execute did (not called for an
\* unregistered name)
resultOf(toolUse, outcome) ==
    IF getTool(toolUse.name) = Absent
    THEN JsonError(<<UNKNOWN_TOOL, toolUse.name>>)
    ELSE IF outcome.ok THEN outcome.text
         ELSE JsonError(<<EXEC_FAILED>> \o outcome.text)

\* agent.ts line 24
LoopContinues_OneMore(iter) == iter <= MaxAgentIterations

LoopContinues(iter) == iter < MaxAgentIterations

\* ------------------------------------------------------------------ state
Procs == {"bot", "cron"}
\* updates of the bot (inbound messages, /compact commands) and cron
\* firings per behaviour: as many as there are processes, so that any two
\* handlers follow one another or overlap
MaxHandlers == Cardinality(Procs)
Instances == 1..Cardinality(Procs)

EmptyStore == <<>>
TwoBigRows == <<Row("user", <<"big">>), Row("assistant", <<"big">>)>>
FourRows == TwoBigRows \o <<Row("user", <<"hi">>), Row("assistant", <<"4">>)>>
\* a log that an earlier session compacted: it holds a summary row
SummaryRows ==
    <<Row("user", <<"hi">>), Row("assistant", <<"4">>),
      Row("summary", <<"brief">>),
      Row("user", <<"hi">>), Row("assistant", <<"4">>)>>
\* a log longer than loadHistory()'s limit: an exchange, then 25 more
LongLog ==
    <<Row("user", <<"task">>), Row("assistant", <<"4">>)>>
       \o [k \in 1..LOAD_LIMIT |->
              IF k % 2 = 1 THEN Row("user", <<"hi">>)
              ELSE Row("assistant", <<"4">>)]
InitStores == {EmptyStore, TwoBigRows, FourRows, SummaryRows, LongLog}

VARIABLES
    store,           \* the rows of conversation_log, oldest first
    contextManager,  \* _contextManager: 0 (null) or an instance
    created,         \* ContextManager instances constructed so far
    history,         \* history[i]: this.history of instance i
    pc,              \* where each process is suspended
    handler,         \* "message", "compact", "task" or "none"
    cm,              \* the instance the handler holds (0: none)
    userMessage,     \* runAgent's argument
    toSummarize,     \* prune()/compact(): toSummarize
    toKeep,          \* prune()/compact(): toKeep
    messages,        \* runAgent's messages
    iterations,      \* runAgent's iterations
    response,        \* response.content of the last completion call
    toolResults,     \* runAgent's toolResults
    summaryText,     \* prune()/compact(): summaryText
    result,          \* what runAgent() / compact() returned
    failure,         \* what the handler's call threw ("none": nothing)
    chatCalls,       \* history variable: chat(messages, tools) calls of the run
    toolResponses,   \* history variable: responses with tool-use blocks
    execLog,         \* history variable: execute calls of this round
    hist0,           \* history variable: the history runAgent() or compact()
                     \* started on
    appended,        \* history variable: the run's addMessage calls
    alone,           \* history variable: no other handler ran meanwhile
    handlers,        \* updates and cron firings so far
    toolRounds,      \* tool-use responses so far
    faults,          \* failures of the environment so far
    registry,        \* the tool registry (the Map's values, in order)
    thrown,          \* what the last registerTool() threw (<<>>: nothing)
    fromId           \* ctx.from?.id of the bot's last update

shared == <<store, contextManager, created, history>>
locals == <<pc, handler, cm, userMessage, toSummarize, toKeep, messages,
            iterations, response, toolResults, summaryText, result, failure>>
ghosts == <<chatCalls, toolResponses, execLog, hist0, appended, alone>>
budgets == <<handlers, toolRounds, faults>>
startup == <<registry, thrown>>
vars == <<shared, locals, ghosts, budgets, startup, fromId>>

\* the process before any update or timer
ProcessStarted ==
    /\ store \in InitStores
    /\ contextManager = 0
    /\ created = 0
    /\ history = [i \in Instances |-> <<>>]
    /\ pc = [p \in Procs |-> "idle"]
    /\ handler = [p \in Procs |-> "none"]
    /\ cm = [p \in Procs |-> 0]
    /\ userMessage = [p \in Procs |-> ""]
    /\ toSummarize = [p \in Procs |-> <<>>]
    /\ toKeep = [p \in Procs |-> <<>>]
    /\ messages = [p \in Procs |-> <<>>]
    /\ iterations = [p \in Procs |-> 0]
    /\ response = [p \in Procs |-> <<>>]
    /\ toolResults = [p \in Procs |-> <<>>]
    /\ summaryText = [p \in Procs |-> <<>>]
    /\ result = [p \in Procs |-> <<>>]
    /\ failure = [p \in Procs |-> "none"]
    /\ chatCalls = [p \in Procs |-> 0]
    /\ toolResponses = [p \in Procs |-> 0]
    /\ execLog = [p \in Procs |-> <<>>]
    /\ hist0 = [p \in Procs |-> <<>>]
    /\ appended = [p \in Procs |-> <<>>]
    /\ alone = [p \in Procs |-> TRUE]
    /\ handlers = 0
    /\ toolRounds = 0
    /\ faults = 0
    /\ fromId = 0

\* the imports are done and the bot polls
Init ==
    /\ ProcessStarted
    /\ registry = StartupRegistry
    /\ thrown = <<>>


\* ------------------------------------------------------------- agent loop
\* the environment answers a request: ok, or with a failure
Answer(ok) ==
    /\ ok \in BOOLEAN
    /\ ~ok => faults < MaxFaults
    /\ faults' = IF ok THEN faults ELSE faults + 1

Fault ==
    /\ faults < MaxFaults
    /\ faults' = faults + 1
BlocksMessage(role, content) ==
    [role |-> role, kind |-> "blocks", content |-> content]

ResultsMessage(role, results) ==
    [role |-> role, kind |-> "tool_results", content |-> results]

\* agent.ts lines 24-27 and 85-89: the loop's test, with the messages as they
\* are and h the history of the run's Context Manager i.  Either the next
\* completion call is made or the fallback is returned.
EnterLoop_Recorded(p, i, h, msgs, iter) ==
    /\ messages' = [messages EXCEPT ![p] = msgs]
    /\ IF LoopContinues(iter)
       THEN /\ history' = [history EXCEPT ![i] = h]
            /\ iterations' = [iterations EXCEPT ![p] = iter + 1]
            /\ chatCalls' = [chatCalls EXCEPT ![p] = @ + 1]
            /\ pc' = [pc EXCEPT ![p] = "chat"]
            /\ result' = result
       ELSE /\ history' = [history EXCEPT ![i] = addMessage(h, "assistant", FALLBACK)]
            /\ iterations' = [iterations EXCEPT ![p] = iter]
            /\ chatCalls' = chatCalls
            /\ pc' = [pc EXCEPT ![p] = "returned"]
            /\ result' = [result EXCEPT ![p] = FALLBACK]

EnterLoop(p, i, h, msgs, iter) ==
    /\ messages' = [messages EXCEPT ![p] = msgs]
    /\ history' = [history EXCEPT ![i] = h]
    /\ IF LoopContinues(iter)
       THEN /\ iterations' = [iterations EXCEPT ![p] = iter + 1]
            /\ chatCalls' = [chatCalls EXCEPT ![p] = @ + 1]
            /\ pc' = [pc EXCEPT ![p] = "chat"]
            /\ result' = result
       ELSE /\ iterations' = [iterations EXCEPT ![p] = iter]
            /\ chatCalls' = chatCalls
            /\ pc' = [pc EXCEPT ![p] = "returned"]
            /\ result' = [result EXCEPT ![p] = FALLBACK]

\* agent.ts lines 11-27, on Context Manager i whose history is h0:
\* addMessage, the prune() call up to its completion call, or getMessages
\* and the first turn of the loop
RunAgentBody(p, i, h0, text) ==
    LET h1 == addMessage(h0, "user", <<text>>)
    IN  /\ hist0' = [hist0 EXCEPT ![p] = h0]
        /\ appended' = [appended EXCEPT ![p] = <<Entry("user", <<text>>)>>]
        /\ IF needsPruning(h1) /\ ~pruneReturnsNull(h1)
           THEN /\ history' = [history EXCEPT ![i] = h1]
                /\ toSummarize' = [toSummarize EXCEPT ![p] = SliceTo(h1, midpoint(h1))]
                /\ toKeep' = [toKeep EXCEPT ![p] = SliceFrom(h1, midpoint(h1))]
                /\ pc' = [pc EXCEPT ![p] = "prune_chat"]
                /\ UNCHANGED <<messages, iterations, chatCalls, result>>
           ELSE /\ EnterLoop(p, i, h1, getMessages(h1), 0)
                /\ UNCHANGED <<toSummarize, toKeep>>

\* context.ts lines 145-168: compact() up to its completion call
CompactBody(p, i, h0) ==
    /\ history' = [history EXCEPT ![i] = h0]
    /\ hist0' = [hist0 EXCEPT ![p] = h0]
    /\ UNCHANGED <<messages, iterations, chatCalls, appended>>
    /\ IF compactTooShort(h0)
       THEN /\ result' = [result EXCEPT ![p] = NOT_ENOUGH]
            /\ pc' = [pc EXCEPT ![p] = "compacted"]
            /\ UNCHANGED <<toSummarize, toKeep>>
       ELSE /\ toSummarize' = [toSummarize EXCEPT ![p] = CompactHead(h0)]
            /\ toKeep' = [toKeep EXCEPT ![p] = CompactTail(h0)]
            /\ pc' = [pc EXCEPT ![p] = "compact_chat"]
            /\ result' = result

Body(p, kind, i, h0, text) ==
    IF kind = "compact" THEN CompactBody(p, i, h0)
    ELSE RunAgentBody(p, i, h0, text)

\* a handler starts: getContextManager() (context.ts lines 195-200) either
\* returns the singleton, and the handler goes on at once, or constructs a
\* ContextManager and waits for loadHistory()'s select
StartHandler(p, kind, text) ==
    /\ UNCHANGED startup
    /\ pc[p] = "idle"
    /\ handlers < MaxHandlers
    /\ handlers' = handlers + 1
    /\ handler' = [handler EXCEPT ![p] = kind]
    /\ userMessage' = [userMessage EXCEPT ![p] = text]
    /\ alone' = [q \in Procs |->
                    IF q = p THEN \A r \in Procs \ {p} : pc[r] = "idle"
                    ELSE IF pc[q] # "idle" THEN FALSE ELSE alone[q]]
    /\ IF contextManager = 0
       THEN /\ created' = created + 1
            /\ cm' = [cm EXCEPT ![p] = created + 1]
            /\ pc' = [pc EXCEPT ![p] = "load"]
            /\ UNCHANGED <<history, toSummarize, toKeep, messages, iterations,
                           chatCalls, result, hist0, appended>>
       ELSE /\ created' = created
            /\ cm' = [cm EXCEPT ![p] = contextManager]
            /\ Body(p, kind, contextManager, history[contextManager], text)
    /\ UNCHANGED <<store, contextManager, response, toolResults, summaryText,
                   failure, toolResponses, execLog, toolRounds, faults>>

\* bot.ts lines 11-20: the middleware every update of the bot goes through;
\* next() is called for an allowed sender only, and the update of any other
\* sender is dropped
Middleware(userId, kind, text) ==
    /\ fromId' = userId
    /\ IF authorized(userId)
       THEN StartHandler("bot", kind, text)
       ELSE /\ pc["bot"] = "idle"
            /\ handlers < MaxHandlers
            /\ handlers' = handlers + 1
            /\ UNCHANGED <<shared, locals, ghosts, toolRounds, faults, startup>>

\* bot.ts lines 31-41: an inbound text message
BotMessage(userId, text) == Middleware(userId, "message", text)

\* bot.ts lines 23-26: the /compact command
BotCompact(userId) == Middleware(userId, "compact", "")

\* scheduler_tools.ts lines 236-240, heartbeat.ts lines 48-53: a cron job
CronTask(prompt) ==
    /\ StartHandler("cron", "task", prompt)
    /\ UNCHANGED fromId

\* context.ts lines 50-68 and 197-199: the select answers; on an error the
\* history stays empty; the instance becomes the singleton
LoadDone(p, ok) ==
    /\ UNCHANGED <<startup, fromId>>
    /\ pc[p] = "load"
    /\ contextManager' = cm[p]
    /\ Body(p, handler[p], cm[p],
            IF ok THEN loadedHistory(store) ELSE <<>>, userMessage[p])
    /\ UNCHANGED <<store, created, handler, cm, userMessage, response,
                   toolResults, summaryText, failure, toolResponses, execLog,
                   alone, handlers,
                   toolRounds>>
    /\ Answer(ok)

\* context.ts lines 112-130: the summarization call answers; the history is
\* replaced and the insert of the summary row is sent
PruneChatDone(p, text) ==
    /\ UNCHANGED <<startup, fromId>>
    /\ pc[p] = "prune_chat"
    /\ history' = [history EXCEPT ![cm[p]] = WithSummary(text, toKeep[p])]
    /\ summaryText' = [summaryText EXCEPT ![p] = text]
    /\ pc' = [pc EXCEPT ![p] = "prune_insert"]
    /\ UNCHANGED <<store, contextManager, created, handler, cm, userMessage,
                   toSummarize, toKeep, messages, iterations, response,
                   toolResults, result, failure, ghosts, budgets>>

\* context.ts line 112 throws: prune() and runAgent() reject
PruneChatFailed_Truncating(p) ==
    /\ UNCHANGED <<startup, fromId>>
    /\ pc[p] = "prune_chat"
    /\ pc' = [pc EXCEPT ![p] = "failed"]
    /\ failure' = [failure EXCEPT ![p] = "completion"]
    /\ history' = [history EXCEPT ![cm[p]] = toKeep[p]]
    /\ UNCHANGED <<store, contextManager, created, handler, cm,
                   userMessage, toSummarize, toKeep, messages, iterations,
                   response, toolResults, summaryText, result, ghosts, handlers,
                   toolRounds>>
    /\ Fault

PruneChatFailed(p) ==
    /\ UNCHANGED <<startup, fromId>>
    /\ pc[p] = "prune_chat"
    /\ pc' = [pc EXCEPT ![p] = "failed"]
    /\ failure' = [failure EXCEPT ![p] = "completion"]
    /\ UNCHANGED <<store, contextManager, created, history, handler, cm,
                   userMessage, toSummarize, toKeep, messages, iterations,
                   response, toolResults, summaryText, result, ghosts, handlers,
                   toolRounds>>
    /\ Fault

\* the insert of a summary row answers: supabase resolves with { error }
\* when the write failed, and the code does not look at it
InsertSummary(rows, text, ok) ==
    IF ok THEN Append(rows, Row("summary", text)) ELSE rows

\* context.ts lines 128-141, agent.ts lines 20-27: the insert answers,
\* prune() returns, the history is projected and the loop entered
PruneInsertDone(p, ok) ==
    /\ UNCHANGED <<startup, fromId>>
    /\ pc[p] = "prune_insert"
    /\ store' = InsertSummary(store, summaryText[p], ok)
    /\ EnterLoop(p, cm[p], history[cm[p]], getMessages(history[cm[p]]), 0)
    /\ toSummarize' = [toSummarize EXCEPT ![p] = <<>>]
    /\ toKeep' = [toKeep EXCEPT ![p] = <<>>]
    /\ UNCHANGED <<contextManager, created, handler, cm, userMessage, response,
                   toolResults, summaryText, failure, toolResponses, execLog,
                   hist0, appended, alone, handlers,
                   toolRounds>>
    /\ Answer(ok)


\* agent.ts lines 35-45: a response without tool-use blocks
FinalText(p, content) ==
    /\ UNCHANGED <<startup, fromId>>
    /\ pc[p] = "chat"
    /\ content \in TextResponses
    /\ response' = [response EXCEPT ![p] = content]
    /\ history' = [history EXCEPT
                      ![cm[p]] = addMessage(@, "assistant", finalTextOf(content))]
    /\ appended' = [appended EXCEPT
                       ![p] = Append(@, Entry("assistant", finalTextOf(content)))]
    /\ result' = [result EXCEPT ![p] = finalTextOf(content)]
    /\ pc' = [pc EXCEPT ![p] = "returned"]
    /\ UNCHANGED <<store, contextManager, created, handler, cm, userMessage,
                   toSummarize, toKeep, messages, iterations, toolResults,
                   summaryText, failure, chatCalls, toolResponses, execLog,
                   hist0, alone, budgets>>

\* agent.ts lines 47-51: a response with tool-use blocks
ToolUse_Persisted(p, content) ==
    /\ UNCHANGED <<startup, fromId>>
    /\ pc[p] = "chat"
    /\ content \in ToolResponses
    /\ toolRounds < MaxToolRounds
    /\ toolRounds' = toolRounds + 1
    /\ toolResponses' = [toolResponses EXCEPT ![p] = @ + 1]
    /\ response' = [response EXCEPT ![p] = content]
    /\ messages' = [messages EXCEPT
                       ![p] = Append(@, BlocksMessage("assistant", content))]
    /\ history' = [history EXCEPT
                      ![cm[p]] = addMessage(@, "assistant", joinTexts(content))]
    /\ toolResults' = [toolResults EXCEPT ![p] = <<>>]
    /\ execLog' = [execLog EXCEPT ![p] = <<>>]
    /\ pc' = [pc EXCEPT ![p] = "tools"]
    /\ UNCHANGED <<store, contextManager, created, handler, cm,
                   userMessage, toSummarize, toKeep, iterations, summaryText,
                   result, failure, chatCalls, hist0, appended, alone, handlers,
                   faults>>

ToolUse(p, content) ==
    /\ UNCHANGED <<startup, fromId>>
    /\ pc[p] = "chat"
    /\ content \in ToolResponses
    /\ toolRounds < MaxToolRounds
    /\ toolRounds' = toolRounds + 1
    /\ toolResponses' = [toolResponses EXCEPT ![p] = @ + 1]
    /\ response' = [response EXCEPT ![p] = content]
    /\ messages' = [messages EXCEPT
                       ![p] = Append(@, BlocksMessage("assistant", content))]
    /\ toolResults' = [toolResults EXCEPT ![p] = <<>>]
    /\ execLog' = [execLog EXCEPT ![p] = <<>>]
    /\ pc' = [pc EXCEPT ![p] = "tools"]
    /\ UNCHANGED <<store, contextManager, created, history, handler, cm,
                   userMessage, toSummarize, toKeep, iterations, summaryText,
                   result, failure, chatCalls, hist0, appended, alone, handlers,
                   faults>>

\* agent.ts line 27 throws: runAgent() rejects
ChatFailed_Retrying(p) ==
    /\ UNCHANGED <<startup, fromId>>
    /\ pc[p] = "chat"
    /\ chatCalls[p] < MaxAgentIterations
    /\ failure' = [failure EXCEPT ![p] = "completion"]
    /\ chatCalls' = [chatCalls EXCEPT ![p] = @ + 1]
    /\ UNCHANGED <<store, contextManager, created, history, pc, handler, cm,
                   userMessage, toSummarize, toKeep, messages, iterations,
                   response, toolResults, summaryText, result, toolResponses,
                   execLog, hist0, appended, alone, handlers, toolRounds>>
    /\ Fault

ChatFailed(p) ==
    /\ UNCHANGED <<startup, fromId>>
    /\ pc[p] = "chat"
    /\ pc' = [pc EXCEPT ![p] = "failed"]
    /\ failure' = [failure EXCEPT ![p] = "completion"]
    /\ UNCHANGED <<store, contextManager, created, history, handler, cm,
                   userMessage, toSummarize, toKeep, messages, iterations,
                   response, toolResults, summaryText, result, ghosts, handlers,
                   toolRounds>>
    /\ Fault

\* agent.ts lines 60-78: toolResults after the invocation's execute settled
toolResultsAfter_Retry(results, toolUse, outcome) ==
    IF getTool(toolUse.name) # Absent /\ ~outcome.ok THEN results
    ELSE Append(results, ToolResult(toolUse, resultOf(toolUse, outcome)))

toolResultsAfter(results, toolUse, outcome) ==
    Append(results, ToolResult(toolUse, resultOf(toolUse, outcome)))

\* JSON.stringify of one content block: the framing and the block's texts
blockJson(b) ==
    CASE b.type = "text" -> <<"{\"type\":\"text\",\"text\":\"", b.text, "\"}">>
      [] b.type = "tool_use" ->
            <<"{\"type\":\"tool_use\",\"id\":\"", b.id, "\",\"name\":\"",
              b.name, "\",\"input\":{}}">>
      [] b.type = "tool_result" ->
            <<"{\"type\":\"tool_result\",\"tool_use_id\":\"", b.tool_use_id,
              "\",\"content\":\"">> \o b.content \o <<"\"}">>

RECURSIVE stringify(_)
stringify(blocks) ==
    IF blocks = <<>> THEN <<>>
    ELSE blockJson(Head(blocks)) \o stringify(Tail(blocks))

\* context.ts lines 19-24
messageTokens(msg) ==
    IF msg.kind = "text" THEN countTokens(msg.content) + ROLE_OVERHEAD
    ELSE countTokens(stringify(msg.content)) + ROLE_OVERHEAD

\* the token count of a request: the sum over its messages
RECURSIVE requestTokens(_)
requestTokens(msgs) ==
    IF msgs = <<>> THEN 0
    ELSE messageTokens(Head(msgs)) + requestTokens(Tail(msgs))

\* agent.ts line 82
pushToolResults(msgs, results) == Append(msgs, ResultsMessage("user", results))

\* agent.ts lines 53-83: one turn of the for loop (the invocation's execute
\* settles with outcome when the tool is registered), and after the last
\* one the push of the results and the loop's test
ToolStep(p, outcome) ==
    /\ UNCHANGED <<startup, fromId>>
    /\ pc[p] = "tools"
    /\ outcome \in ExecOutcomes
    /\ LET uses == toolUseBlocksOf(response[p])
           toolUse == uses[Len(toolResults[p]) + 1]
           results == toolResultsAfter(toolResults[p], toolUse, outcome)
       IN  /\ execLog' = [execLog EXCEPT
                             ![p] = IF getTool(toolUse.name) = Absent THEN @
                                    ELSE Append(@, [id |-> toolUse.id,
                                                    outcome |-> outcome])]
           /\ toolResults' = [toolResults EXCEPT ![p] = results]
           /\ IF Len(results) < Len(uses)
              THEN UNCHANGED <<history, messages, iterations, chatCalls, pc,
                               result>>
              ELSE EnterLoop(p, cm[p], history[cm[p]],
                             pushToolResults(messages[p], results),
                             iterations[p])
    /\ UNCHANGED <<store, contextManager, created, handler, cm, userMessage,
                   toSummarize, toKeep, response, summaryText, failure,
                   toolResponses, hist0, appended, alone, budgets>>

\* context.ts lines 168-185: compact()'s summarization call answers
CompactChatDone(p, text) ==
    /\ UNCHANGED <<startup, fromId>>
    /\ pc[p] = "compact_chat"
    /\ history' = [history EXCEPT ![cm[p]] = WithSummary(text, toKeep[p])]
    /\ summaryText' = [summaryText EXCEPT ![p] = text]
    /\ pc' = [pc EXCEPT ![p] = "compact_insert"]
    /\ UNCHANGED <<store, contextManager, created, handler, cm, userMessage,
                   toSummarize, toKeep, messages, iterations, response,
                   toolResults, result, failure, ghosts, budgets>>

\* context.ts line 168 throws: compact() rejects
CompactChatFailed(p) ==
    /\ UNCHANGED <<startup, fromId>>
    /\ pc[p] = "compact_chat"
    /\ pc' = [pc EXCEPT ![p] = "failed"]
    /\ failure' = [failure EXCEPT ![p] = "completion"]
    /\ UNCHANGED <<store, contextManager, created, history, handler, cm,
                   userMessage, toSummarize, toKeep, messages, iterations,
                   response, toolResults, summaryText, result, ghosts, handlers,
                   toolRounds>>
    /\ Fault

\* context.ts lines 183-188: the insert answers and compact() returns its
\* status text
CompactInsertDone(p, ok) ==
    /\ UNCHANGED <<startup, fromId>>
    /\ pc[p] = "compact_insert"
    /\ store' = InsertSummary(store, summaryText[p], ok)
    /\ result' = [result EXCEPT ![p] = <<"Compacted: ">>]
    /\ pc' = [pc EXCEPT ![p] = "compacted"]
    /\ toSummarize' = [toSummarize EXCEPT ![p] = <<>>]
    /\ toKeep' = [toKeep EXCEPT ![p] = <<>>]
    /\ UNCHANGED <<contextManager, created, history, handler, cm, userMessage,
                   messages, iterations, response, toolResults, summaryText,
                   failure, ghosts, handlers,
                   toolRounds>>
    /\ Answer(ok)

\* the handler is over: its locals are gone
Reset(p) ==
    /\ pc' = [pc EXCEPT ![p] = "idle"]
    /\ handler' = [handler EXCEPT ![p] = "none"]
    /\ cm' = [cm EXCEPT ![p] = 0]
    /\ userMessage' = [userMessage EXCEPT ![p] = ""]
    /\ toSummarize' = [toSummarize EXCEPT ![p] = <<>>]
    /\ toKeep' = [toKeep EXCEPT ![p] = <<>>]
    /\ messages' = [messages EXCEPT ![p] = <<>>]
    /\ iterations' = [iterations EXCEPT ![p] = 0]
    /\ response' = [response EXCEPT ![p] = <<>>]
    /\ toolResults' = [toolResults EXCEPT ![p] = <<>>]
    /\ summaryText' = [summaryText EXCEPT ![p] = <<>>]
    /\ result' = [result EXCEPT ![p] = <<>>]
    /\ failure' = [failure EXCEPT ![p] = "none"]
    /\ chatCalls' = [chatCalls EXCEPT ![p] = 0]
    /\ toolResponses' = [toolResponses EXCEPT ![p] = 0]
    /\ execLog' = [execLog EXCEPT ![p] = <<>>]
    /\ hist0' = [hist0 EXCEPT ![p] = <<>>]
    /\ appended' = [appended EXCEPT ![p] = <<>>]
    /\ alone' = [alone EXCEPT ![p] = TRUE]

\* bot.ts lines 48-54
logConversation_UserOnly(rows, text, reply, ok) ==
    IF ok THEN Append(rows, Row("user", <<text>>)) ELSE rows

logConversation(rows, text, reply, ok) ==
    IF ok THEN rows \o <<Row("user", <<text>>), Row("assistant", reply)>>
    ELSE rows

\* bot.ts lines 43-66: runAgent() returned to the message handler, which
\* inserts the user row and the assistant row and replies
BotLog(p, ok) ==
    /\ UNCHANGED <<startup, fromId>>
    /\ pc[p] = "returned"
    /\ handler[p] = "message"
    /\ store' = logConversation(store, userMessage[p], result[p], ok)
    /\ Reset(p)
    /\ UNCHANGED <<contextManager, created, history, handlers,
                   toolRounds>>
    /\ Answer(ok)

\* scheduler_tools.ts lines 241-245, heartbeat.ts lines 54-55: runAgent()
\* returned to the cron job, which sends the result to the user
TaskDone(p) ==
    /\ UNCHANGED <<startup, fromId>>
    /\ pc[p] = "returned"
    /\ handler[p] = "task"
    /\ Reset(p)
    /\ UNCHANGED <<shared, budgets>>

\* bot.ts line 27: compact() returned and the status is sent as the reply
CompactReply(p) ==
    /\ UNCHANGED <<startup, fromId>>
    /\ pc[p] = "compacted"
    /\ Reset(p)
    /\ UNCHANGED <<shared, budgets>>

\* bot.ts lines 67-75, scheduler_tools.ts lines 246-248: the handler's
\* catch (for /compact, the bot's error handler)
Caught(p) ==
    /\ UNCHANGED <<startup, fromId>>
    /\ pc[p] = "failed"
    /\ Reset(p)
    /\ UNCHANGED <<shared, budgets>>

Next ==
    \/ \E userId \in Senders, text \in UserTexts : BotMessage(userId, text)
    \/ \E userId \in Senders : BotCompact(userId)
    \/ \E prompt \in TaskPrompts : CronTask(prompt)
    \/ \E p \in Procs, ok \in BOOLEAN : LoadDone(p, ok)
    \/ \E p \in Procs, text \in SummaryTexts : PruneChatDone(p, text)
    \/ \E p \in Procs : PruneChatFailed(p)
    \/ \E p \in Procs, ok \in BOOLEAN : PruneInsertDone(p, ok)
    \/ \E p \in Procs, content \in TextResponses : FinalText(p, content)
    \/ \E p \in Procs, content \in ToolResponses : ToolUse(p, content)
    \/ \E p \in Procs : ChatFailed(p)
    \/ \E p \in Procs, outcome \in ExecOutcomes : ToolStep(p, outcome)
    \/ \E p \in Procs, text \in SummaryTexts : CompactChatDone(p, text)
    \/ \E p \in Procs : CompactChatFailed(p)
    \/ \E p \in Procs, ok \in BOOLEAN : CompactInsertDone(p, ok)
    \/ \E p \in Procs, ok \in BOOLEAN : BotLog(p, ok)
    \/ \E p \in Procs : TaskDone(p)
    \/ \E p \in Procs : CompactReply(p)
    \/ \E p \in Procs : Caught(p)

Spec == Init /\ [][Next]_vars

\* ------------------------------------------------------------ registration
\* the side-effect imports of index.ts: each module registers its tools
\* (tools/index.ts lines 388-393), before the bot polls and any timer runs
RegisterTool(tool) ==
    /\ registry' = registerTool(registry, tool)
    /\ thrown' = IF registryHas(registry, tool.name)
                 THEN AlreadyRegistered(tool.name) ELSE <<>>
    /\ UNCHANGED <<shared, locals, ghosts, budgets, fromId>>

InitRegistry ==
    /\ ProcessStarted
    /\ registry = <<>>
    /\ thrown = <<>>

NextRegistry == \E tool \in ToolDescriptors : RegisterTool(tool)

SpecRegistry == InitRegistry /\ [][NextRegistry]_vars


\* ----------------------------------------------------------------- claims
Last(s) == s[Len(s)]

UserEntry(p) == Entry("user", <<userMessage[p]>>)

PruneThreshold == (MAX_CONTEXT_TOKENS * PRUNE_THRESHOLD_TENTHS) \div 10

\* C1: no run makes more than maxAgentIterations completion calls in its
\* loop, and a run that returned after only tool-requesting responses made
\* exactly maxAgentIterations of them and returned the fallback string.
C1_LoopBounded ==
    \A p \in Procs :
        /\ chatCalls[p] <= MaxAgentIterations
        /\ (pc[p] = "returned" /\ toolResponses[p] = chatCalls[p])
              => /\ chatCalls[p] = MaxAgentIterations
                 /\ iterations[p] = MaxAgentIterations
                 /\ result[p] = FALLBACK

C1_Witness ==
    \E p \in Procs :
        /\ pc[p] = "returned"
        /\ toolResponses[p] = MaxAgentIterations
        /\ result[p] = FALLBACK

C3_ResultsAnswerRequests ==
    \A p \in Procs :
        \A m \in 1..Len(messages[p]) :
            /\ messages[p][m].kind = "blocks"
                  => IF m = Len(messages[p]) THEN pc[p] = "tools"
                     ELSE LET uses == toolUseBlocksOf(messages[p][m].content)
                              turn == messages[p][m + 1]
                          IN  /\ turn.kind = "tool_results"
                              /\ turn.role = "user"
                              /\ Len(uses) >= 1
                              /\ Len(turn.content) = Len(uses)
                              /\ \A i \in 1..Len(uses) :
                                    turn.content[i].tool_use_id = uses[i].id
            /\ messages[p][m].kind = "tool_results"
                  => m > 1 /\ messages[p][m - 1].kind = "blocks"

\* the second completion call of a run is in flight, after a response that
\* asked for id2 and then id1
C3_Witness ==
    \E p \in Procs :
        /\ pc[p] = "chat"
        /\ iterations[p] = 2
        /\ Last(messages[p]).kind = "tool_results"
        /\ Last(messages[p]).content[1].tool_use_id = "id2"
        /\ Last(messages[p]).content[2].tool_use_id = "id1"

\* C4: the result of an invocation that names an unregistered tool is the
\* error payload {"error": "Unknown tool: <name>"}; its siblings get their
\* results too (the turn has one result per request); and runAgent() fails
\* only when a completion call fails.
C4_UnknownToolIsAnError ==
    \A p \in Procs :
        /\ pc[p] = "failed" => failure[p] = "completion"
        /\ pc[p] = "tools"
              => LET uses == toolUseBlocksOf(response[p])
                 IN  \A i \in 1..Len(toolResults[p]) :
                        uses[i].name \notin Registry
                           => toolResults[p][i].content =
                                 JsonError(<<UNKNOWN_TOOL, uses[i].name>>)
        /\ \A m \in 2..Len(messages[p]) :
              messages[p][m].kind = "tool_results"
                 => LET uses == toolUseBlocksOf(messages[p][m - 1].content)
                        results == messages[p][m].content
                    IN  /\ Len(results) = Len(uses)
                        /\ \A i \in 1..Len(uses) :
                              uses[i].name \notin Registry
                                 => results[i].content =
                                       JsonError(<<UNKNOWN_TOOL, uses[i].name>>)

\* after a round with an unregistered tool and a sibling that ran, the
\* loop has made its next completion call
C4_Witness ==
    \E p \in Procs :
        /\ pc[p] = "chat"
        /\ Len(messages[p]) >= 2
        /\ Last(messages[p]).kind = "tool_results"
        /\ Last(messages[p]).content[1].content =
              JsonError(<<UNKNOWN_TOOL, "no_such_tool">>)
        /\ Last(messages[p]).content[2].content = <<"12:00">>

\* C5: execute is called at most once for an invocation; when it throws,
\* the invocation's result is the error payload with the failure message
\* (when it resolves, the text it resolved with); and runAgent() fails only
\* when a completion call fails.
C5_ThrowIsAnErrorResult ==
    \A p \in Procs :
        /\ pc[p] = "failed" => failure[p] = "completion"
        /\ \A a, b \in 1..Len(execLog[p]) :
              a # b => execLog[p][a].id # execLog[p][b].id
        /\ \A a \in 1..Len(execLog[p]) :
              \E i \in 1..Len(toolResults[p]) :
                 /\ toolResults[p][i].tool_use_id = execLog[p][a].id
                 /\ toolResults[p][i].content =
                       IF execLog[p][a].outcome.ok
                       THEN execLog[p][a].outcome.text
                       ELSE JsonError(<<EXEC_FAILED>> \o execLog[p][a].outcome.text)

\* a tool threw and the loop went on to its next completion call
C5_Witness ==
    \E p \in Procs :
        /\ pc[p] = "chat"
        /\ Len(execLog[p]) = 1
        /\ ~execLog[p][1].outcome.ok
        /\ Last(messages[p]).content[2].content =
              JsonError(<<EXEC_FAILED, "boom">>)

\* C6: a step of a run's tool round trip (one that changes its messages or
\* its toolResults after the projection) changes no Context Manager's
\* history.
C6_RoundTripsLeaveHistory ==
    [][\A p \in Procs :
          (/\ pc[p] \in {"chat", "tools"}
           /\ messages'[p] # messages[p] \/ toolResults'[p] # toolResults[p])
             => history' = history
      ]_vars

\* a run in the middle of a round, on the history it projected
C6_Witness ==
    \E p \in Procs :
        /\ pc[p] = "tools"
        /\ Len(toolResults[p]) = 1
        /\ Last(messages[p]).kind = "blocks"
        /\ history[cm[p]] = Append(hist0[p], UserEntry(p))


\* C7 (as amended): the step that returns the fallback is taken after
\* maxAgentIterations completion calls and changes neither a history nor
\* the store, so runAgent() does not record the fallback; the message
\* handler then logs the turn as it logs any other, and when its insert
\* succeeds the store holds the fallback as the assistant row of the turn.
C7_FallbackNotRecordedByRun ==
    [][\A p \in Procs :
          /\ (pc[p] # "returned" /\ pc'[p] = "returned"
                 /\ result'[p] = FALLBACK)
                => /\ history' = history
                   /\ store' = store
                   /\ chatCalls[p] = MaxAgentIterations
          /\ (pc[p] = "returned" /\ pc'[p] = "idle"
                 /\ handler[p] = "message" /\ faults' = faults)
                => store' = store \o <<Row("user", <<userMessage[p]>>),
                                       Row("assistant", result[p])>>
      ]_vars

\* a run of the message handler was exhausted and its turn was logged
C7_Witness ==
    /\ pc["bot"] = "idle"
    /\ \A i \in Instances : \A k \in 1..Len(history[i]) :
          history[i][k].content # FALLBACK
    /\ \E k \in 1..Len(store) : store[k] = Row("assistant", FALLBACK)

\* C7 (as claimed): the fallback is in no history and in no assistant row
\* of the conversation store.
C7_FallbackNeverStored ==
    /\ \A i \in Instances : \A k \in 1..Len(history[i]) :
          history[i][k].content # FALLBACK
    /\ \A k \in 1..Len(store) : store[k] # Row("assistant", FALLBACK)

\* C8: the step in which the summarization call of prune() or compact()
\* fails changes no history and not the store, and the call rejects.
C8_SummaryFailureIsAtomic ==
    [][\A p \in Procs :
          (pc[p] \in {"prune_chat", "compact_chat"}
              /\ failure'[p] = "completion")
             => /\ history' = history
                /\ store' = store
                /\ pc'[p] = "failed"
      ]_vars

\* prune()'s summarization call failed: the history is still the one
\* prune() was called on
C8_Witness ==
    \E p \in Procs :
        /\ pc[p] = "failed"
        /\ handler[p] # "compact"
        /\ toKeep[p] # <<>>
        /\ history[cm[p]] = toSummarize[p] \o toKeep[p]

\* C9 (as claimed): every summary entry of a history has its summary row in
\* the conversation store.
C9_SummaryHasItsRow ==
    \A i \in Instances : \A k \in 1..Len(history[i]) :
        Head(history[i][k].content) = SUMMARY_MARKER
           => \E r \in 1..Len(store) :
                 store[r] = Row("summary", Tail(history[i][k].content))

\* C10: prune() returns null on every history that is not above the
\* threshold or has 3 or fewer entries; and when runAgent() has added the
\* user message to such a history, it goes on to its first completion call
\* with the history as it is and the store untouched.
C10_PruneIsANoop ==
    /\ [](\A i \in Instances :
             (getTotalTokens(history[i]) <= PruneThreshold
                 \/ Len(history[i]) <= 3)
                => pruneReturnsNull(history[i]))
    /\ [][\A p \in Procs :
             (pc[p] \in {"idle", "load"} /\ pc'[p] \notin {"idle", "load"}
                 /\ handler'[p] # "compact")
                => LET h1 == Append(hist0'[p], Entry("user", <<userMessage'[p]>>))
                   IN  (getTotalTokens(h1) <= PruneThreshold \/ Len(h1) <= 3)
                          => /\ pc'[p] = "chat"
                             /\ store' = store
                             /\ history'[cm'[p]] = h1
         ]_vars

\* a history of 3 entries above the threshold, and the run is at its first
\* completion call
C10_Witness ==
    \E p \in Procs :
        /\ pc[p] = "chat"
        /\ chatCalls[p] = 1
        /\ Len(history[cm[p]]) = 3
        /\ getTotalTokens(history[cm[p]]) > PruneThreshold
        /\ history[cm[p]] = Append(hist0[p], UserEntry(p))

\* the history prune() was called on by the run of p: the one the run
\* started on and the user message
PrunedHistory(p) == Append(hist0[p], UserEntry(p))

\* C11: the step in which prune()'s summarization call succeeds happens on
\* a history of n >= 4 entries above the threshold, the summarized segment
\* is its first floor(n/2) entries, and the history becomes one assistant
\* entry whose content is the summary marker and the summary text, followed
\* by the entries after the first floor(n/2), unchanged and in order: its
\* length is n - floor(n/2) + 1.
C11_PruneKeepsSecondHalf ==
    [][\A p \in Procs :
          (pc[p] = "prune_chat" /\ pc'[p] = "prune_insert")
             => LET h == PrunedHistory(p)
                    n == Len(h)
                    new == history'[cm[p]]
                IN  /\ n >= 4
                    /\ getTotalTokens(h) > PruneThreshold
                    /\ toSummarize[p] = SubSeq(h, 1, n \div 2)
                    /\ Len(new) = n - (n \div 2) + 1
                    /\ new[1].role = "assistant"
                    /\ new[1].content = <<SUMMARY_MARKER>> \o summaryText'[p]
                    /\ \A k \in 1..(n - (n \div 2)) :
                          new[k + 1] = h[(n \div 2) + k]
      ]_vars

\* prune() succeeded on a history of five entries: two were summarized and
\* the history has four
C11_Witness ==
    \E p \in Procs :
        /\ pc[p] = "prune_insert"
        /\ Len(PrunedHistory(p)) = 5
        /\ Len(history[cm[p]]) = 4
        /\ history[cm[p]][1] = Entry("assistant", <<SUMMARY_MARKER, "brief">>)
        /\ history[cm[p]][4] = UserEntry(p)

\* C12: compact() on a history of n >= 4 entries goes on to its
\* summarization call whether or not the history is above the pruning
\* threshold; when the call succeeds the summarized segment is everything
\* before the last 4 entries, and the history becomes one assistant summary
\* entry followed by those 4 entries, unchanged and in order: 5 entries.
C12_CompactKeepsLastFour ==
    [][\A p \in Procs :
          /\ (pc[p] \in {"idle", "load"} /\ pc'[p] \notin {"idle", "load"}
                 /\ handler'[p] = "compact" /\ Len(hist0'[p]) >= 4)
                => pc'[p] = "compact_chat"
          /\ (pc[p] = "compact_chat" /\ pc'[p] = "compact_insert")
                => LET h == hist0[p]
                       n == Len(h)
                       new == history'[cm[p]]
                   IN  /\ n >= 4
                       /\ toSummarize[p] = SubSeq(h, 1, n - 4)
                       /\ Len(new) = 5
                       /\ new[1] = Entry("assistant",
                                         <<SUMMARY_MARKER>> \o summaryText'[p])
                       /\ \A k \in 1..4 : new[k + 1] = h[n - 4 + k]
      ]_vars

\* compact() summarized the first entry of a history of five entries that
\* was far below the threshold
C12_Witness ==
    \E p \in Procs :
        /\ pc[p] = "compact_insert"
        /\ Len(hist0[p]) = 5
        /\ ~needsPruning(hist0[p])
        /\ Len(history[cm[p]]) = 5
        /\ toSummarize[p] = <<hist0[p][1]>>
        /\ history[cm[p]][1] = Entry("assistant", <<SUMMARY_MARKER, "brief">>)

\* C13: compact() called on a history of fewer than 4 entries returns "Not
\* enough conversation history to compact." at once: it makes no
\* summarization call, the store is not written and the history stays the
\* one it was called on.
C13_CompactNeedsFour ==
    [][\A p \in Procs :
          (pc[p] \in {"idle", "load"} /\ pc'[p] \notin {"idle", "load"}
              /\ handler'[p] = "compact" /\ Len(hist0'[p]) < 4)
             => /\ pc'[p] = "compacted"
                /\ result'[p] = NOT_ENOUGH
                /\ store' = store
                /\ history'[cm'[p]] = hist0'[p]
                /\ pc[p] = "idle" => history' = history
      ]_vars

\* compact() returned the status text on a history of exactly 3 entries
C13_Witness ==
    \E p \in Procs :
        /\ pc[p] = "compacted"
        /\ result[p] = NOT_ENOUGH
        /\ Len(hist0[p]) = 3
        /\ history[cm[p]] = hist0[p]

\* C14 (as claimed): when the summarization call of prune() or compact()
\* has succeeded and no other handler ran meanwhile, the total token count
\* of the new history is strictly lower than that of the history the
\* operation was called on.
C14_CompactionLowersTokens ==
    \A p \in Procs :
        (pc[p] \in {"prune_insert", "compact_insert"} /\ alone[p])
           => getTotalTokens(history[cm[p]])
                 < getTotalTokens(toSummarize[p] \o toKeep[p])

\* C15 (as claimed): when the history with the user message appended was
\* above the threshold, the messages of the run's first completion call
\* hold no more tokens than the threshold (120,000).
C15_FirstCallWithinThreshold ==
    \A p \in Procs :
        (pc[p] = "chat" /\ chatCalls[p] = 1 /\ needsPruning(PrunedHistory(p)))
           => requestTokens(messages[p]) <= PruneThreshold

\* C16 (as claimed): the messages of every completion call of a run, the
\* ones after tool results were appended included, hold no more tokens than
\* the context budget (150,000).
C16_EveryCallWithinBudget ==
    \A p \in Procs :
        pc[p] = "chat" => requestTokens(messages[p]) <= MAX_CONTEXT_TOKENS

\* a is b with some elements left out
RECURSIVE IsSubsequence(_, _)
IsSubsequence(a, b) ==
    IF a = <<>> THEN TRUE
    ELSE IF b = <<>> THEN FALSE
    ELSE IF Head(a) = Head(b) THEN IsSubsequence(Tail(a), Tail(b))
    ELSE IsSubsequence(a, Tail(b))

\* the entries of a history that are not summary entries made in memory
RECURSIVE Turns(_)
Turns(h) ==
    IF h = <<>> THEN <<>>
    ELSE IF Head(h).content # <<>> /\ Head(Head(h).content) = SUMMARY_MARKER
         THEN Turns(Tail(h))
         ELSE <<Head(h)>> \o Turns(Tail(h))

Quiescent == \A p \in Procs : pc[p] = "idle"

\* C17 (as claimed): whenever no handler is running, the user and
\* assistant entries of the Context Manager's history are rows of the
\* conversation log, in the order of the log.
C17_HistoryMirrorsLog ==
    (Quiescent /\ contextManager # 0)
       => IsSubsequence(Turns(history[contextManager]), store)

\* C18: a step that appends to a history through addMessage() leaves the
\* store as it is; the store changes only by a summary row appended by
\* prune() or compact(), or by the user row and the assistant row of a turn
\* appended together by the message handler after its runAgent() returned;
\* and the steps in which a run fails and its failure is caught write
\* nothing.
C18_PairsAreWrittenWhole ==
    [][/\ \A p \in Procs :
             /\ (appended'[p] # appended[p] /\ appended'[p] # <<>>)
                   => store' = store
             /\ (pc'[p] = "failed" /\ pc[p] # "failed") => store' = store
             /\ (pc[p] = "failed" /\ pc'[p] = "idle") => store' = store
       /\ store' # store
             => \E p \in Procs :
                   \/ /\ pc[p] \in {"prune_insert", "compact_insert"}
                      /\ store' = Append(store, Row("summary", summaryText[p]))
                   \/ /\ pc[p] = "returned"
                      /\ handler[p] = "message"
                      /\ store' = store \o <<Row("user", <<userMessage[p]>>),
                                             Row("assistant", result[p])>>
      ]_vars

\* on an empty log: one turn was logged as a pair, and a second run, which
\* had appended its user message to the history, failed and wrote nothing
C18_Witness ==
    /\ Quiescent
    /\ contextManager # 0
    /\ store = <<Row("user", <<"hi">>), Row("assistant", <<"4">>)>>
    /\ history[contextManager] =
          <<Entry("user", <<"hi">>), Entry("assistant", <<"4">>),
            Entry("user", <<"hi">>)>>

\* C19 (as claimed): every entry of every history has role user or
\* assistant.
C19_RolesAreUserOrAssistant ==
    \A i \in Instances : \A k \in 1..Len(history[i]) :
        history[i][k].role \in {"user", "assistant"}

\* the agent loop or compact() is running on behalf of p
Active(p) ==
    pc[p] \in {"prune_chat", "prune_insert", "chat", "tools",
               "compact_chat", "compact_insert"}

\* C20 (as claimed): no two handlers are inside runAgent() or compact() on
\* the same Context Manager at the same time.
C20_OneActiveLoop ==
    \A p, q \in Procs :
        (p # q /\ Active(p) /\ Active(q)) => cm[p] # cm[q]

\* C21: the step in which a completion call of runAgent(), prune() or
\* compact() fails makes the invocation reject (its caller's catch is what
\* runs next for it) without another call of the loop; and a rejected
\* invocation makes no step but its caller's catch: no completion call, no
\* change of its messages or of a history.
C21_CompletionFailurePropagates ==
    [][\A p \in Procs :
          /\ (failure[p] = "none" /\ failure'[p] # "none")
                => /\ pc[p] \in {"chat", "prune_chat", "compact_chat"}
                   /\ pc'[p] = "failed"
                   /\ chatCalls'[p] = chatCalls[p]
                   /\ history' = history
          /\ pc[p] = "failed"
                => \/ pc'[p] = "idle"
                   \/ /\ pc'[p] = "failed"
                      /\ chatCalls'[p] = chatCalls[p]
                      /\ messages'[p] = messages[p]
      ]_vars

\* the second completion call of a run failed, after a round of tools
C21_Witness ==
    \E p \in Procs :
        /\ pc[p] = "failed"
        /\ failure[p] = "completion"
        /\ chatCalls[p] = 2
        /\ toolResponses[p] = 1

\* C22: the step in which loadHistory()'s select answers makes the instance
\* the singleton and raises no error; the history the handler then works on
\* is, when the select succeeded, the last min(50, number of rows) rows of
\* the log in the order of the log, and the empty history when it failed.
C22_LoadsNewestFifty ==
    [][\A p \in Procs :
          (pc[p] = "load" /\ pc'[p] # "load")
             => LET n == IF Len(store) < 50 THEN Len(store) ELSE 50
                    h == hist0'[p]
                IN  /\ contextManager' = cm[p]
                    /\ pc'[p] # "failed"
                    /\ failure'[p] = "none"
                    /\ faults' # faults => h = <<>>
                    /\ faults' = faults
                          => /\ Len(h) = n
                             /\ \A k \in 1..n :
                                   /\ h[k].role = store[Len(store) - n + k].role
                                   /\ h[k].content =
                                         store[Len(store) - n + k].content
      ]_vars

\* two managers were created over a log of 52 rows: the select of one
\* failed and its history started empty, the other loaded rows 3 to 52
C22_Witness ==
    \E p, q \in Procs :
        /\ Len(store) = 52
        /\ pc[p] \notin {"idle", "load"}
        /\ pc[q] \notin {"idle", "load"}
        /\ hist0[p] = <<>>
        /\ Len(hist0[q]) = 50
        /\ hist0[q][1] = Entry("user", <<"hi">>)
        /\ hist0[q][50] = Entry("assistant", <<"4">>)

\* C23: no two descriptors of the registry have the same name; a
\* registerTool() call that throws leaves the registry as it was, and it
\* throws exactly when the name is already there; a call never replaces or
\* removes a descriptor, so every name keeps the first descriptor
\* registered under it.
C23_RegistryNamesUnique ==
    /\ [](\A i, j \in 1..Len(registry) :
             i # j => registry[i].name # registry[j].name)
    /\ [][/\ thrown' # <<>> => registry' = registry
          /\ thrown' = <<>> => Len(registry') = Len(registry) + 1
          /\ Len(registry') >= Len(registry)
          /\ \A i \in 1..Len(registry) : registry'[i] = registry[i]
         ]_startup

\* list_memories was registered, and a second registration under that name
\* threw
C23_Witness ==
    /\ thrown = AlreadyRegistered("list_memories")
    /\ Len(registry) = 2
    /\ registry[1] = Tool("list_memories", "first")
    /\ registry[2].name = "get_current_time"

\* C24: on every history, needsPruning() is true exactly when the total
\* token count is greater than 120,000.
C24_PruningThreshold ==
    \A i \in Instances :
        needsPruning(history[i]) <=> getTotalTokens(history[i]) > 120000

\* one history of exactly 120,000 tokens that needs no pruning, and one of
\* 120,001 tokens that does
C24_Witness ==
    \E i, j \in Instances :
        /\ getTotalTokens(history[i]) = 120000
        /\ ~needsPruning(history[i])
        /\ getTotalTokens(history[j]) = 120001
        /\ needsPruning(history[j])

\* the sum of tokenize(content) + 4 over the first k entries of h
RECURSIVE CostOfFirst(_, _)
CostOfFirst(h, k) ==
    IF k = 0 THEN 0
    ELSE CostOfFirst(h, k - 1) + countTokens(h[k].content) + 4

\* C25: on every history getTotalTokens() is the sum over its entries of
\* tokenize(content) + 4; and each addMessage() of a run (the user message
\* appended to the history the run started on, the reply appended at the
\* final-text exit) raises the total by the tokens of the appended content
\* plus 4.
C25_TotalIsSumOfCosts ==
    /\ [](\A i \in Instances :
             getTotalTokens(history[i]) = CostOfFirst(history[i], Len(history[i])))
    /\ [][\A p \in Procs :
             /\ (pc[p] \in {"idle", "load"} /\ pc'[p] \notin {"idle", "load"}
                    /\ handler'[p] # "compact")
                   => getTotalTokens(history'[cm'[p]])
                         = getTotalTokens(hist0'[p])
                              + countTokens(<<userMessage'[p]>>) + 4
             /\ (pc[p] = "chat" /\ pc'[p] = "returned" /\ result'[p] # FALLBACK)
                   => getTotalTokens(history'[cm[p]])
                         = getTotalTokens(history[cm[p]])
                              + countTokens(result'[p]) + 4
         ]_vars

\* a run appended "hi" and then "4" to a loaded history: 7 and 5 tokens
C25_Witness ==
    \E p \in Procs :
        /\ pc[p] = "returned"
        /\ hist0[p] # <<>>
        /\ history[cm[p]] = hist0[p] \o <<UserEntry(p), Entry("assistant", <<"4">>)>>
        /\ userMessage[p] = "hi"
        /\ getTotalTokens(history[cm[p]]) = getTotalTokens(hist0[p]) + 12

\* a step in which the bot receives an update
BotUpdate == handlers' = handlers + 1 /\ pc'["cron"] = pc["cron"]

\* C26: a handler of the bot (runAgent() for a message, compact() for
\* /compact) starts only in a step that receives an update whose sender is
\* in the allow-list; and an update of a sender that is not changes no
\* history, not the store, no handler's state and no result: there is no
\* run and nothing to reply.
C26_OnlyAllowedSendersRun ==
    [][/\ (pc["bot"] = "idle" /\ pc'["bot"] # "idle")
             => BotUpdate /\ fromId' \in {7}
       /\ (BotUpdate /\ fromId' \notin {7})
             => UNCHANGED <<shared, locals, ghosts>>
      ]_vars

\* an update of a stranger was received, and nothing has run
C26_Witness ==
    /\ fromId = 8
    /\ handlers = 1
    /\ Quiescent
    /\ contextManager = 0
    /\ created = 0

\* C27 (as claimed): in the step in which the summarization call of prune()
\* or compact() succeeds, the new history is the summary entry followed by
\* every entry that was in the history after the summarized segment, the
\* ones that other runs appended during the call included.
C27_NoEntryLost ==
    [][\A p \in Procs :
          (pc[p] \in {"prune_chat", "compact_chat"}
              /\ pc'[p] \in {"prune_insert", "compact_insert"})
             => LET old == history[cm[p]]
                    new == history'[cm[p]]
                IN  SubSeq(new, 2, Len(new))
                       = SubSeq(old, Len(toSummarize[p]) + 1, Len(old))
      ]_vars

\* C28 (as claimed): at most one ContextManager is ever constructed, and
\* all the handlers that hold one hold the same.
C28_OneContextManager ==
    /\ created <= 1
    /\ \A p, q \in Procs : (cm[p] # 0 /\ cm[q] # 0) => cm[p] = cm[q]

\* C29 (as claimed): when the summarization call of a compact() that no
\* other handler overlapped has succeeded, the history is not longer than
\* the one compact() was called on.
C29_CompactNeverGrows ==
    \A p \in Procs :
        (pc[p] = "compact_insert" /\ alone[p])
           => Len(history[cm[p]]) <= Len(hist0[p])

\* C30 (as claimed): when a run has returned after a round in which a tool
\* was executed, the loop has made a completion call after that round (one
\* more call than there were responses asking for tools).
C30_ResultsAreSentBack ==
    \A p \in Procs :
        (pc[p] = "returned" /\ toolResponses[p] > 0 /\ Len(execLog[p]) > 0)
           => chatCalls[p] > toolResponses[p]

====
